---- MODULE Spec2Model ----
(***************************************************************************)
(* SuperSet (src/index.js): a subclass of the built-in Set with map,       *)
(* filter, reduce, every, some, find, join, first and the set algebra      *)
(* union, subtract, xor, intersect, isSubsetOf, equals, update.            *)
(*                                                                         *)
(* A set instance is modelled by its iteration order `items` (the entry    *)
(* list of the built-in Set) together with a history of its insertions:    *)
(*   tick      number of insertions that took effect so far,               *)
(*   first[e]  tick of the very first insertion of e (0: never inserted),  *)
(*   since[e]  tick of the insertion since which e is held (0: not held).  *)
(* The history is written from the calls made, never from `items`.         *)
(*                                                                         *)
(* JavaScript values: a number n is <<n>>, undefined is <<>>.              *)
(***************************************************************************)
EXTENDS Integers, Sequences, FiniteSets, TLC

MaxElem == 2
MaxLen == 2
MaxInitLen == 3
MaxSets == 3
MaxSteps == 3
MaxArgs == 3

Elems == 0..MaxElem
NElems == MaxElem + 1

undefined == <<>>
Num(n) == <<n>>
Values == {undefined} \cup {Num(n) : n \in Elems}

Range(s) == {s[i] : i \in 1..Len(s)}

\* iterables handed to the constructor and to update: arrays of at most MaxLen elements
Iterables == UNION {[1..n -> Elems] : n \in 0..MaxLen}

\* iterables the two sets of a query are built from
InitIterables == UNION {[1..n -> Elems] : n \in 0..MaxInitLen}

(***************************************************************************)
(* The built-in Set: has, add, delete on the entry list.                   *)
(***************************************************************************)
SetHas(items, x) == \E i \in 1..Len(items) : items[i] = x

SetAddDup(items, x) == Append(items, x)

SetAddMove(items, x) == Append(SelectSeq(items, LAMBDA y : y # x), x)

SetAdd(items, x) == IF SetHas(items, x) THEN items ELSE Append(items, x)

SetDelete(items, x) == SelectSeq(items, LAMBDA y : y # x)

NoStamps == [e \in Elems |-> 0]

EmptySet == [items |-> <<>>, tick |-> 0, first |-> NoStamps, since |-> NoStamps]

\* this.add(x)
add(obj, x) ==
    LET held == obj.since[x] # 0
        t == obj.tick + 1
    IN [items |-> SetAdd(obj.items, x),
        tick  |-> IF held THEN obj.tick ELSE t,
        first |-> IF held \/ obj.first[x] # 0 THEN obj.first ELSE [obj.first EXCEPT ![x] = t],
        since |-> IF held THEN obj.since ELSE [obj.since EXCEPT ![x] = t]]

\* this.size
size(obj) == Len(obj.items)

\* this.delete(x)
delete(obj, x) ==
    [obj EXCEPT !.items = SetDelete(obj.items, x), !.since = [obj.since EXCEPT ![x] = 0]]

\* for (const itm of iterable) target.add(itm), over an array or a drained generator
RECURSIVE addAll(_, _)
addAll(obj, stream) ==
    IF stream = <<>> THEN obj ELSE addAll(add(obj, Head(stream)), Tail(stream))

\* new SuperSet(iterable): the Set constructor adds every item of the iterable
NewSuperSet(stream) == addAll(EmptySet, stream)

(***************************************************************************)
(* Callbacks handed in by the caller, drawn from small families.           *)
(***************************************************************************)
Transforms == {"id", "mod2", "succ", "const", "rev"}

ApplyTransform(f, x) ==
    CASE f = "id"    -> x
      [] f = "mod2"  -> x % 2
      [] f = "succ"  -> (x + 1) % NElems
      [] f = "const" -> 0
      [] f = "rev"   -> MaxElem - x

\* a predicate is the function telling for which elements the callback is truthy
Predicates == [Elems -> BOOLEAN]

Combiners == {"acc", "itm", "horner", "count"}

ApplyCombine(f, acc, x) ==
    CASE f = "acc"    -> acc
      [] f = "itm"    -> Num(x)
      [] f = "horner" -> IF acc = undefined THEN Num(x) ELSE Num((2 * acc[1] + x) % NElems)
      [] f = "count"  -> IF acc = undefined THEN Num(1) ELSE Num((acc[1] + 1) % NElems)

(***************************************************************************)
(* Generators (src/index.js 10-65), as the streams they yield.             *)
(***************************************************************************)
mapGen(setItems, transform) ==
    [i \in 1..Len(setItems) |-> ApplyTransform(transform, setItems[i])]

filterGen(setItems, check) == SelectSeq(setItems, LAMBDA itm : check[itm])

subtractGenSwapped(set1, set2) == SelectSeq(set1, LAMBDA itm : SetHas(set2, itm))

subtractGen(set1, set2) == SelectSeq(set1, LAMBDA itm : ~SetHas(set2, itm))

unionGen(stream1, stream2) == stream1 \o stream2

xorGenReversed(set1, set2) == unionGen(subtractGen(set2, set1), subtractGen(set1, set2))

xorGen(set1, set2) == unionGen(subtractGen(set1, set2), subtractGen(set2, set1))

\* otherSetObj.has bound to otherSetObj, as a predicate
hasOf(other) == [e \in Elems |-> SetHas(other.items, e)]

(***************************************************************************)
(* Methods returning a new set.                                            *)
(***************************************************************************)
map(this, func) == NewSuperSet(mapGen(this.items, func))

filter(this, check) == NewSuperSet(filterGen(this.items, check))

union(this, other) == NewSuperSet(unionGen(this.items, other.items))

subtract(this, other) == NewSuperSet(subtractGen(this.items, other.items))

intersect(this, other) == filter(this, hasOf(other))

xor(this, other) == NewSuperSet(xorGen(this.items, other.items))

(***************************************************************************)
(* every / some / find: the loop with its early return; `calls` lists the  *)
(* elements the callback was invoked on, in order.                         *)
(***************************************************************************)
RECURSIVE everyFromNoBreak(_, _, _, _, _)
everyFromNoBreak(items, check, i, calls, ok) ==
    IF i > Len(items) THEN [truth |-> ok, calls |-> calls]
    ELSE everyFromNoBreak(items, check, i + 1, Append(calls, items[i]), ok /\ check[items[i]])

RECURSIVE everyFrom(_, _, _, _)
everyFrom(items, check, i, calls) ==
    IF i > Len(items) THEN [truth |-> TRUE, calls |-> calls]
    ELSE IF ~check[items[i]] THEN [truth |-> FALSE, calls |-> Append(calls, items[i])]
    ELSE everyFrom(items, check, i + 1, Append(calls, items[i]))

everyNoBreak(this, check) == everyFromNoBreak(this.items, check, 1, <<>>, TRUE)

every(this, check) == everyFrom(this.items, check, 1, <<>>)

RECURSIVE someFrom(_, _, _, _)
someFrom(items, check, i, calls) ==
    IF i > Len(items) THEN [truth |-> FALSE, calls |-> calls]
    ELSE IF check[items[i]] THEN [truth |-> TRUE, calls |-> Append(calls, items[i])]
    ELSE someFrom(items, check, i + 1, Append(calls, items[i]))

some(this, check) == someFrom(this.items, check, 1, <<>>)

RECURSIVE findFrom(_, _, _, _)
findFrom(items, check, i, calls) ==
    IF i > Len(items) THEN [val |-> undefined, calls |-> calls]
    ELSE IF check[items[i]] THEN [val |-> Num(items[i]), calls |-> Append(calls, items[i])]
    ELSE findFrom(items, check, i + 1, Append(calls, items[i]))

find(this, check) == findFrom(this.items, check, 1, <<>>)

\* this[Symbol.iterator]().next().value
first(this) == IF this.items = <<>> THEN undefined ELSE Num(this.items[1])

\* Array.from(this).join(separator)
RECURSIVE joinFrom(_, _, _)
joinFrom(items, separator, i) ==
    IF i > Len(items) THEN ""
    ELSE IF i = Len(items) THEN ToString(items[i])
    ELSE ToString(items[i]) \o separator \o joinFrom(items, separator, i + 1)

join(this, separator) == joinFrom(this.items, separator, 1)

isSubsetOf(this, other) == every(this, hasOf(other)).truth

equalsNoSize(this, other) == isSubsetOf(this, other)

equals(this, other) == size(this) = size(other) /\ isSubsetOf(this, other)

(***************************************************************************)
(* reduce(func, initialValue) called with argc arguments.                  *)
(* `calls` lists the <<accumulator, element>> pairs func was invoked on.   *)
(***************************************************************************)
RECURSIVE reduceLoop(_, _, _, _, _)
reduceLoop(items, func, i, result, calls) ==
    IF i > Len(items) THEN [err |-> "", val |-> result, calls |-> calls]
    ELSE reduceLoop(items, func, i + 1, ApplyCombine(func, result, items[i]),
                    Append(calls, <<result, Num(items[i])>>))

reduceByUndefined(this, func, argc, initialValue) ==
    IF initialValue = undefined /\ size(this) = 0
    THEN [err |-> "TypeError", val |-> undefined, calls |-> <<>>]
    ELSE IF initialValue = undefined
         THEN reduceLoop(this.items, func, 2, first(this), <<>>)
         ELSE reduceLoop(this.items, func, 1, initialValue, <<>>)

reduceNoGuard(this, func, argc, initialValue) ==
    IF argc = 1
    THEN reduceLoop(this.items, func, 2, first(this), <<>>)
    ELSE reduceLoop(this.items, func, 1, initialValue, <<>>)

reduce(this, func, argc, initialValue) ==
    IF argc < 2 /\ size(this) = 0
    THEN [err |-> "TypeError", val |-> undefined, calls |-> <<>>]
    ELSE IF argc = 1
         THEN reduceLoop(this.items, func, 2, first(this), <<>>)
         ELSE reduceLoop(this.items, func, 1, initialValue, <<>>)

\* update(iterable) with an array, a drained generator or another set as the iterable
update(this, stream) == addAll(this, stream)

\* update(this): the receiver is iterated while it is being added to
RECURSIVE updateSelfFrom(_, _)
updateSelfFrom(this, i) ==
    IF i > Len(this.items) THEN this ELSE updateSelfFrom(add(this, this.items[i]), i + 1)

(***************************************************************************)
(* State: the instances created so far (an instance is its index in        *)
(* `heap`), the last call with its arguments and outcome, and the number   *)
(* of calls made so far.                                                   *)
(***************************************************************************)
VARIABLES heap, last, steps

vars == <<heap, last, steps>>

Ids == 1..Len(heap)

NoCall ==
    [op |-> "none", a |-> 0, b |-> 0, ref |-> 0, val |-> undefined, truth |-> FALSE,
     err |-> "", calls |-> <<>>, str |-> "", argc |-> 0, init |-> undefined, func |-> "",
     check |-> [e \in Elems |-> FALSE], iter |-> <<>>, x |-> 0]

Init ==
    /\ heap = <<>>
    /\ last = NoCall
    /\ steps = 0

\* two sets built from arbitrary iterables, with one call left to make
InitPure ==
    /\ \E i1 \in InitIterables, i2 \in InitIterables : heap = <<NewSuperSet(i1), NewSuperSet(i2)>>
    /\ last = NoCall
    /\ steps = MaxSteps - 1

\* a call returning a freshly constructed instance
Allocate(obj, call) ==
    /\ Len(heap) < MaxSets
    /\ steps < MaxSteps
    /\ heap' = Append(heap, obj)
    /\ last' = [call EXCEPT !.ref = Len(heap) + 1]
    /\ steps' = steps + 1

\* a call that only reads
Query(call) ==
    /\ steps < MaxSteps
    /\ last' = call
    /\ steps' = steps + 1
    /\ UNCHANGED heap

\* a call that changes instance a in place and returns ref
Mutate(a, obj, call) ==
    /\ steps < MaxSteps
    /\ heap' = [heap EXCEPT ![a] = obj]
    /\ last' = call
    /\ steps' = steps + 1

Construct ==
    \E iter \in Iterables :
        Allocate(NewSuperSet(iter), [NoCall EXCEPT !.op = "new", !.iter = iter])

Add ==
    \E a \in Ids, x \in Elems :
        Mutate(a, add(heap[a], x), [NoCall EXCEPT !.op = "add", !.a = a, !.x = x, !.ref = a])

Remove ==
    \E a \in Ids, x \in Elems :
        Mutate(a, delete(heap[a], x),
               [NoCall EXCEPT !.op = "delete", !.a = a, !.x = x,
                              !.truth = SetHas(heap[a].items, x)])

UpdateCopy(a, iter) ==
    Allocate(update(heap[a], iter), [NoCall EXCEPT !.op = "update", !.a = a, !.iter = iter])

UpdateInPlace(a, iter) ==
    Mutate(a, update(heap[a], iter),
           [NoCall EXCEPT !.op = "update", !.a = a, !.iter = iter, !.ref = a])

Update ==
    \E a \in Ids, iter \in Iterables : UpdateInPlace(a, iter)

UpdateFromSet ==
    \E a \in Ids, b \in Ids :
        Mutate(a, IF a = b THEN updateSelfFrom(heap[a], 1) ELSE update(heap[a], heap[b].items),
               [NoCall EXCEPT !.op = "update", !.a = a, !.b = b, !.iter = heap[b].items,
                              !.ref = a])

Map ==
    \E a \in Ids, f \in Transforms :
        Allocate(map(heap[a], f), [NoCall EXCEPT !.op = "map", !.a = a, !.func = f])

Filter ==
    \E a \in Ids, check \in Predicates :
        Allocate(filter(heap[a], check),
                 [NoCall EXCEPT !.op = "filter", !.a = a, !.check = check])

UnionInPlace(a, b) ==
    Mutate(a, update(heap[a], heap[b].items),
           [NoCall EXCEPT !.op = "union", !.a = a, !.b = b, !.ref = a])

UnionCall(a, b) ==
    Allocate(union(heap[a], heap[b]), [NoCall EXCEPT !.op = "union", !.a = a, !.b = b])

Union ==
    \E a \in Ids, b \in Ids : UnionCall(a, b)

Subtract ==
    \E a \in Ids, b \in Ids :
        Allocate(subtract(heap[a], heap[b]),
                 [NoCall EXCEPT !.op = "subtract", !.a = a, !.b = b])

Xor ==
    \E a \in Ids, b \in Ids :
        Allocate(xor(heap[a], heap[b]), [NoCall EXCEPT !.op = "xor", !.a = a, !.b = b])

Intersect ==
    \E a \in Ids, b \in Ids :
        Allocate(intersect(heap[a], heap[b]),
                 [NoCall EXCEPT !.op = "intersect", !.a = a, !.b = b])

Every ==
    \E a \in Ids, check \in Predicates :
        LET r == every(heap[a], check)
        IN Query([NoCall EXCEPT !.op = "every", !.a = a, !.check = check,
                                !.truth = r.truth, !.calls = r.calls])

Some ==
    \E a \in Ids, check \in Predicates :
        LET r == some(heap[a], check)
        IN Query([NoCall EXCEPT !.op = "some", !.a = a, !.check = check,
                                !.truth = r.truth, !.calls = r.calls])

Find ==
    \E a \in Ids, check \in Predicates :
        LET r == find(heap[a], check)
        IN Query([NoCall EXCEPT !.op = "find", !.a = a, !.check = check,
                                !.val = r.val, !.calls = r.calls])

First ==
    \E a \in Ids :
        Query([NoCall EXCEPT !.op = "first", !.a = a, !.val = first(heap[a])])

Separators == {",", ""}

Join ==
    \E a \in Ids, separator \in Separators :
        Query([NoCall EXCEPT !.op = "join", !.a = a, !.str = join(heap[a], separator)])

\* reduce(func) has argc = 1 and initialValue undefined; reduce(func, init, ...) has argc >= 2
Reduce ==
    \E a \in Ids, func \in Combiners, argc \in 1..MaxArgs, init \in Values :
        /\ argc = 1 => init = undefined
        /\ LET r == reduce(heap[a], func, argc, init)
           IN Query([NoCall EXCEPT !.op = "reduce", !.a = a, !.func = func, !.argc = argc,
                                   !.init = init, !.err = r.err, !.val = r.val,
                                   !.calls = r.calls])

IsSubsetOf ==
    \E a \in Ids, b \in Ids :
        Query([NoCall EXCEPT !.op = "isSubsetOf", !.a = a, !.b = b,
                             !.truth = isSubsetOf(heap[a], heap[b])])

Equals ==
    \E a \in Ids, b \in Ids :
        Query([NoCall EXCEPT !.op = "equals", !.a = a, !.b = b,
                             !.truth = equals(heap[a], heap[b])])

\* construction, mutation and the derived-set operations
Next ==
    \/ Construct
    \/ Add
    \/ Remove
    \/ Update
    \/ UpdateFromSet
    \/ Map
    \/ Filter
    \/ Union
    \/ Subtract
    \/ Xor
    \/ Intersect

Spec == Init /\ [][Next]_vars

\* one reading operation or one operation of the set algebra on two arbitrary sets
NextPure ==
    \/ Every
    \/ Some
    \/ Find
    \/ First
    \/ Join
    \/ Reduce
    \/ IsSubsetOf
    \/ Equals
    \/ Union
    \/ Subtract
    \/ Xor
    \/ Intersect

SpecPure == InitPure /\ [][NextPure]_vars

(***************************************************************************)
(* Vocabulary of the properties.                                           *)
(***************************************************************************)
NoDup(s) == \A i, j \in 1..Len(s) : s[i] = s[j] => i = j

Pos(s, x) == CHOOSE k \in 1..Len(s) : s[k] = x

\* r lists some elements of s, in the order they have in s
InOrderOf(r, s) ==
    /\ Range(r) \subseteq Range(s)
    /\ \A i, j \in 1..Len(r) : i < j => Pos(s, r[i]) < Pos(s, r[j])

\* the elements of s are listed by strictly increasing stamp
OrderedBy(s, stamp) == \A i, j \in 1..Len(s) : i < j => stamp[s[i]] < stamp[s[j]]

\* the left fold of func over s, by recursion on the last element
RECURSIVE LeftFold(_, _, _)
LeftFold(func, seed, s) ==
    IF s = <<>> THEN seed
    ELSE ApplyCombine(func, LeftFold(func, seed, SubSeq(s, 1, Len(s) - 1)), s[Len(s)])

\* func was invoked once per element of s, in order, each time on the fold so far
FoldCalls(func, seed, s, calls) ==
    /\ Len(calls) = Len(s)
    /\ \A k \in 1..Len(s) :
           calls[k] = <<LeftFold(func, seed, SubSeq(s, 1, k - 1)), Num(s[k])>>

\* the step is the call recorded in last'
Called(op) == steps' = steps + 1 /\ last'.op = op

DerivedOps == {"map", "filter", "union", "subtract", "xor", "intersect"}

(***************************************************************************)
(* C1                                                                      *)
(***************************************************************************)
ReduceEmptyFailsWith(kind) ==
    (Called("reduce") /\ last'.argc = 1 /\ size(heap[last'.a]) = 0)
        => /\ last'.err = kind
           /\ last'.calls = <<>>
           /\ size(heap'[last'.a]) = 0

\* C1 as stated: reduce(f) on an empty set fails with an error of kind
\* InvalidOperation, f is never invoked and the set is still empty.
C1_ReduceEmptyInvalidOperation == [][ReduceEmptyFailsWith("InvalidOperation")]_vars

\* C1 amended: reduce(f) on an empty set fails with a TypeError, f is never
\* invoked and the set is still empty afterwards.
C1_ReduceEmptyTypeError == [][ReduceEmptyFailsWith("TypeError")]_vars

C1_Witness ==
    /\ last.op = "reduce"
    /\ last.argc = 1
    /\ last.err # ""
    /\ size(heap[last.a]) = 0

(***************************************************************************)
(* C2                                                                      *)
(***************************************************************************)
\* C2: reduce(f, init) with init passed explicitly (undefined included)
\* returns the left fold seeded with init, f invoked once per element in
\* iteration order, and raises no error even on an empty set; reduce(f) on a
\* non-empty set returns the left fold of e2..en seeded with e1, f invoked
\* n-1 times.
C2_ReduceIsLeftFold ==
    last.op = "reduce" =>
        LET items == heap[last.a].items
        IN /\ last.argc >= 2 =>
                  /\ last.err = ""
                  /\ last.val = LeftFold(last.func, last.init, items)
                  /\ FoldCalls(last.func, last.init, items, last.calls)
           /\ (last.argc = 1 /\ items # <<>>) =>
                  /\ last.err = ""
                  /\ last.val = LeftFold(last.func, Num(items[1]), Tail(items))
                  /\ FoldCalls(last.func, Num(items[1]), Tail(items), last.calls)

C2_Witness ==
    /\ last.op = "reduce"
    /\ last.argc = 2
    /\ last.init = undefined
    /\ last.func = "horner"
    /\ size(heap[last.a]) = 3
    /\ Len(last.calls) = 3

(***************************************************************************)
(* C5                                                                      *)
(***************************************************************************)
\* C5: A.equals(B) is true iff A.isSubsetOf(B) and B.isSubsetOf(A); isSubsetOf
\* is true iff every element of the receiver is in the other set, hence for
\* an empty receiver; A.isSubsetOf(A) and A.equals(A) are true.
C5_EqualsIsMutualSubset ==
    /\ last.op = "equals" =>
           /\ last.truth <=> (isSubsetOf(heap[last.a], heap[last.b])
                                 /\ isSubsetOf(heap[last.b], heap[last.a]))
           /\ last.a = last.b => last.truth
    /\ last.op = "isSubsetOf" =>
           /\ last.truth <=> (Range(heap[last.a].items) \subseteq Range(heap[last.b].items))
           /\ last.a = last.b => last.truth
           /\ size(heap[last.a]) = 0 => last.truth

C5_Witness ==
    /\ last.op = "equals"
    /\ last.truth
    /\ last.a # last.b
    /\ size(heap[last.a]) = 3
    /\ heap[last.a].items # heap[last.b].items

(***************************************************************************)
(* C6                                                                      *)
(***************************************************************************)
\* C6: A.subtract(B).union(A.intersect(B)).equals(A); A.subtract(B) holds
\* exactly the elements of A not in B and A.intersect(B) exactly those in B,
\* each in A's iteration order.
C6_SubtractIntersectPartition ==
    /\ \A a, b \in Ids :
           equals(union(subtract(heap[a], heap[b]), intersect(heap[a], heap[b])), heap[a])
    /\ last.op = "subtract" =>
           LET A == heap[last.a].items  B == heap[last.b].items  R == heap[last.ref].items
           IN /\ Range(R) = Range(A) \ Range(B)
              /\ NoDup(R)
              /\ InOrderOf(R, A)
    /\ last.op = "intersect" =>
           LET A == heap[last.a].items  B == heap[last.b].items  R == heap[last.ref].items
           IN /\ Range(R) = Range(A) \cap Range(B)
              /\ NoDup(R)
              /\ InOrderOf(R, A)

C6_Witness ==
    /\ last.op = "subtract"
    /\ size(heap[last.ref]) = 2
    /\ size(intersect(heap[last.a], heap[last.b])) = 1
    /\ last.a # last.b

(***************************************************************************)
(* C7                                                                      *)
(***************************************************************************)
\* C7: A.xor(B) holds exactly the elements in exactly one of A and B, it
\* equals A.subtract(B).union(B.subtract(A)), and it lists the elements of
\* A minus B in A's order before those of B minus A in B's order.
C7_XorIsSymmetricDifference ==
    /\ \A a, b \in Ids :
           equals(xor(heap[a], heap[b]),
                  union(subtract(heap[a], heap[b]), subtract(heap[b], heap[a])))
    /\ last.op = "xor" =>
           LET A == heap[last.a].items  B == heap[last.b].items  R == heap[last.ref].items
               k == Cardinality(Range(A) \ Range(B))
           IN /\ Range(R) = (Range(A) \ Range(B)) \cup (Range(B) \ Range(A))
              /\ NoDup(R)
              /\ Range(SubSeq(R, 1, k)) = Range(A) \ Range(B)
              /\ InOrderOf(SubSeq(R, 1, k), A)
              /\ InOrderOf(SubSeq(R, k + 1, Len(R)), B)

C7_Witness ==
    /\ last.op = "xor"
    /\ size(heap[last.ref]) = 2
    /\ size(heap[last.a]) = 2
    /\ size(heap[last.b]) = 2
    /\ heap[last.ref].items[1] \in Range(heap[last.a].items)

(***************************************************************************)
(* C8                                                                      *)
(***************************************************************************)
\* C8: every visits the elements in iteration order, returns false at the
\* first element failing p without invoking p on a later one, and true if
\* the set is empty or all pass; some returns true at the first element
\* passing p without invoking p on a later one, and false if none passes.
C8_EverySomeShortCircuit ==
    /\ last.op = "every" =>
           LET items == heap[last.a].items  n == Len(last.calls)
           IN /\ last.calls = SubSeq(items, 1, n)
              /\ \A k \in 1..(n - 1) : last.check[items[k]]
              /\ last.truth => (n = Len(items) /\ \A k \in 1..n : last.check[items[k]])
              /\ ~last.truth => (n >= 1 /\ ~last.check[items[n]])
    /\ last.op = "some" =>
           LET items == heap[last.a].items  n == Len(last.calls)
           IN /\ last.calls = SubSeq(items, 1, n)
              /\ \A k \in 1..(n - 1) : ~last.check[items[k]]
              /\ last.truth => (n >= 1 /\ last.check[items[n]])
              /\ ~last.truth => (n = Len(items) /\ \A k \in 1..n : ~last.check[items[k]])

C8_Witness ==
    /\ last.op = "every"
    /\ ~last.truth
    /\ Len(last.calls) = 2
    /\ size(heap[last.a]) = 3
    /\ ~last.check[heap[last.a].items[3]]

(***************************************************************************)
(* C10                                                                     *)
(***************************************************************************)
\* C10: A.union(B).size <= A.size + B.size, with equality iff A and B have
\* no element in common.
C10_UnionSize ==
    last.op = "union" =>
        LET A == heap[last.a]  B == heap[last.b]  R == heap[last.ref]
        IN /\ size(R) <= size(A) + size(B)
           /\ size(R) = size(A) + size(B) <=> Range(A.items) \cap Range(B.items) = {}

C10_Witness ==
    /\ last.op = "union"
    /\ last.a # last.b
    /\ size(heap[last.ref]) = 3
    /\ size(heap[last.a]) = 2
    /\ size(heap[last.b]) = 2

(***************************************************************************)
(* C3                                                                      *)
(***************************************************************************)
\* C3: map, filter, union, subtract, xor and intersect return an instance
\* distinct from both operands (also when the operands are one instance)
\* and leave every existing set as it was; a call that changes the contents
\* of an existing set is an update of that set (or the built-in add or
\* delete on it).
C3_DerivedSetsAreFresh ==
    [][/\ (steps' = steps + 1 /\ last'.op \in DerivedOps) =>
              /\ last'.ref \notin Ids
              /\ last'.ref \in 1..Len(heap')
              /\ last'.ref \notin {last'.a, last'.b}
              /\ \A i \in Ids : heap'[i].items = heap[i].items
       /\ \A i \in Ids :
              heap'[i].items # heap[i].items =>
                  (last'.op \in {"update", "add", "delete"} /\ last'.a = i)]_vars

C3_Witness ==
    /\ last.op = "union"
    /\ last.a = last.b
    /\ size(heap[last.a]) = 2
    /\ heap[last.ref].items = heap[last.a].items

(***************************************************************************)
(* C4                                                                      *)
(***************************************************************************)
HeldOrderedBy(stamp(_)) ==
    /\ \A i \in Ids :
           /\ NoDup(heap[i].items)
           /\ Range(heap[i].items) = {e \in Elems : heap[i].since[e] # 0}
           /\ OrderedBy(heap[i].items, stamp(i))
    /\ last.op = "new" => size(heap[last.ref]) = Cardinality(Range(last.iter))

\* C4 as stated: no set holds two equal elements, and a set iterates its
\* elements in the order in which they were first inserted into it;
\* constructing from an iterable yields as many elements as the iterable has
\* distinct ones.
C4_OrderOfFirstInsertion == HeldOrderedBy(LAMBDA i : heap[i].first)

\* C4 amended: no set holds two equal elements, and a set iterates its
\* elements in the order of the insertions since which they are held (an
\* element deleted and added again moves to the end); constructing from an
\* iterable yields as many elements as the iterable has distinct ones.
C4_OrderOfCurrentInsertion == HeldOrderedBy(LAMBDA i : heap[i].since)

C4_Witness ==
    \E i \in Ids, e \in Elems :
        /\ size(heap[i]) >= 2
        /\ heap[i].since[e] # 0
        /\ heap[i].since[e] # heap[i].first[e]

(***************************************************************************)
(* C9                                                                      *)
(***************************************************************************)
\* C9: update(I) returns the receiver itself; afterwards the receiver holds
\* its previous elements, in their previous order, followed by the elements
\* of I it did not hold, without duplicates; no other set changes; a second
\* update(I) changes nothing.
C9_UpdateInPlace ==
    [][Called("update") =>
           LET a == last'.a
               old == heap[a].items
               new == heap'[a].items
           IN /\ last'.ref = a
              /\ Len(heap') = Len(heap)
              /\ \A i \in Ids \ {a} : heap'[i] = heap[i]
              /\ Range(new) = Range(old) \cup Range(last'.iter)
              /\ NoDup(new)
              /\ SubSeq(new, 1, Len(old)) = old
              /\ InOrderOf(SubSeq(new, Len(old) + 1, Len(new)), last'.iter)
              /\ update(heap'[a], last'.iter) = heap'[a]]_vars

C9_Witness ==
    /\ last.op = "update"
    /\ last.ref = last.a
    /\ Len(last.iter) = 2
    /\ size(heap[last.a]) = 3
    /\ heap[last.a].items[1] = last.iter[1]
    /\ heap[last.a].items[3] = last.iter[2]
    /\ heap[last.a].since[last.iter[2]] = heap[last.a].tick

====
